---- MODULE Spec2Model ----
(***************************************************************************)
(* Submission queue and worker of the code-clash backend.                  *)
(*                                                                         *)
(* The database is the only shared state: the submissions table and the   *)
(* test_results table.  Every worker runs SubmissionWorker._run_loop and  *)
(* works through its own SQLAlchemy session; what a session has not       *)
(* committed is invisible to the others.  A commit is one atomic step.    *)
(***************************************************************************)
EXTENDS Integers, Sequences, FiniteSets, TLC

\* ---------------------------------------------------------------- bounds
NumWorkers == 3
MaxSubmissions == 2
MaxTests == 2
\* test cases of the challenge while the full pool of workers runs
PoolMaxTests == 1

\* ------------------------------------------------------- program constants
NumCallers == 3
MaxProcesses == 2
MaxBatch == 2
WORKER_MAX_RETRIES == 1
EXECUTION_MAX_PROCESSES == 10
WORKER_BATCH_SIZE == 1
WORKER_POLL_INTERVAL_MS == 1000
MIN_POLL_INTERVAL_MS == 100

Workers == 1..NumWorkers
\* the threads that call the executor: workers and request handlers
Callers == 1..NumCallers
Ids == 1..MaxSubmissions
\* writer tag of the rows inserted by the submit endpoint's own evaluation
ApiWriter == 0

Outcomes == {"pass", "wrong_answer", "compile_error", "runtime_error", "time_limit_exceeded"}
Terminal == {"completed", "failed", "timeout"}

\* every list of per-test outcomes of n test cases, test case i at index i
ResultLists(n) == [1..n -> Outcomes]

\* ------------------------------------------------------------------ state
VARIABLES
  live,         \* the worker instances that were started
  ntests,       \* number of test cases the challenge store holds for the question
  sub,          \* submissions table: id -> row (status "none": no such row)
  origin,       \* who inserted the row: "none", "enqueue", "submit_code"
  nextId,       \* next primary key
  test_results, \* test_results table: id -> rows [by, test_case_id, passed]
  pc,           \* position of each worker in _run_loop/process_next_submission
  cur,          \* the submission a worker's session holds (0: none)
  delSeen,      \* inserters of the rows the worker's uncommitted DELETE removed
  evals,        \* how many times _evaluate_submission was entered for a row
  failures,     \* how many of these evaluations raised
  req,          \* row of the submit request in flight (0: none)
  resp,         \* outcome of the last submit request
  tests,        \* the test cases handed to execute_code, in list order
  events,       \* what the environment does for each of them (compile, run, output)
  idx,          \* how many test cases the loop of execute_code has gone through
  results,      \* the results list execute_code has built so far
  ret,          \* the value execute_code returned ("none": not yet)
  escaped,      \* an exception left execute_code
  once,         \* what run_once gave for the first test input
  output,       \* stdout text handed to _compare_output
  expected,     \* expected value handed to _compare_output
  verdict,      \* what _compare_output returned: "True", "False" ("none": not called yet)
  files,        \* challenge store: question id -> which of its two files exist
  drafts,       \* code_drafts table: the (user_id, question_id, language) keys of its rows
  sub_question, \* question_id column of the submissions table: id -> question id
  audit_events, \* audit_events table, in insertion order
  del_resp,     \* outcome of the last DELETE /challenges/{question_id} ("none": no call yet)
  call,         \* arguments of the _execute_single_test call that is followed
  os_environ,   \* os.environ of the server process: name -> value
  stage,        \* how far that call has come
  program,      \* what the file written by _create_source_file does when built and run
  children,     \* the child processes started so far: step and environment of each
  stdin_data,   \* the text _format_stdin made of the test input ("none": not yet)
  outcome,      \* how the test case ended ("none": not yet)
  max_processes, \* settings.EXECUTION_MAX_PROCESSES
  permits,      \* _execution_semaphore._value: the free permits
  caller,       \* where each calling thread is in _compile_if_needed / _run_code
  step,         \* which of the two a calling thread is in: "compile" or "run"
  stop_event,   \* SubmissionWorker._stop_event is set
  settings,     \* WORKER_BATCH_SIZE and WORKER_POLL_INTERVAL_SECONDS (in ms)
  loop          \* where worker 1 is in _run_loop, and its local variable processed

vars == <<live, ntests, sub, origin, nextId, test_results, pc, cur, delSeen, evals, failures,
          req, resp, tests, events, idx, results, ret, escaped, once, output, expected, verdict,
          files, drafts, sub_question, audit_events, del_resp,
          call, os_environ, stage, program, children, stdin_data, outcome,
          max_processes, permits, caller, step, stop_event, settings, loop>>

\* ------------------------------------------------------------ ORM mapping
\* The columns the Submission class maps.  An attribute outside this set is a
\* plain Python attribute of the instance: assigning it is never flushed, and
\* reading it before any assignment raises AttributeError.
MappedColumns == {"status", "score", "completed_at"}

\* The columns of the submissions table that the model follows.
NoRow == [status |-> "none", retry_count |-> 0, score |-> 0, error_type |-> "null",
          started_at |-> "null", completed_at |-> "null"]

\* INSERT of a new row with the given status; the other columns take the
\* table's defaults.
NewRow(st) == [NoRow EXCEPT !.status = st]

\* flush of the dirty attributes of an instance: only mapped columns reach the row
Flush(row, attrs) ==
  [c \in DOMAIN row |-> IF c \in DOMAIN attrs /\ c \in MappedColumns THEN attrs[c] ELSE row[c]]

\* ------------------------------------------------------------ execute_code
RECURSIVE CountPass(_)
CountPass(r) == IF r = <<>> THEN 0
                ELSE (IF r[1] = "pass" THEN 1 ELSE 0) + CountPass(Tail(r))

\* error_type of the first result that did not pass, "null" when all passed
RECURSIVE PrimaryError(_)
PrimaryError(r) == IF r = <<>> THEN "null"
                   ELSE IF r[1] # "pass" THEN r[1] ELSE PrimaryError(Tail(r))

execute_code(r) == [passed |-> CountPass(r), total |-> Len(r),
                    error_type |-> PrimaryError(r),
                    test_results |-> [i \in 1..Len(r) |-> r[i] = "pass"]]

\* the TestResult rows a session adds for the results of one evaluation; "by"
\* stands for the primary keys the INSERTs of that session draw
NewRows(by, res) ==
  {[by |-> by, test_case_id |-> i, passed |-> res.test_results[i]] : i \in 1..res.total}

\* int((passed / total) * 100) if total > 0 else 0
Score(passed, total) == IF total > 0 THEN (passed * 100) \div total ELSE 0

\* FinalStatus with the error type of the "failed" branch not looked at
FinalStatusAnyFailure(error_type, passed) ==
  IF error_type = "time_limit_exceeded" /\ passed = 0 THEN "timeout"
  ELSE IF passed = 0 THEN "failed"
  ELSE "completed"

\* the final status _evaluate_submission derives from the aggregate result
FinalStatus(error_type, passed) ==
  IF error_type = "time_limit_exceeded" /\ passed = 0 THEN "timeout"
  ELSE IF error_type \in {"compile_error", "runtime_error"} /\ passed = 0 THEN "failed"
  ELSE "completed"

\* ------------------------------------------------------------------- Init
InitDb ==
  /\ sub = [s \in Ids |-> NoRow]
  /\ origin = [s \in Ids |-> "none"]
  /\ nextId = 1
  /\ test_results = [s \in Ids |-> {}]
  /\ pc = [w \in Workers |-> "poll"]
  /\ cur = [w \in Workers |-> 0]
  /\ delSeen = [w \in Workers |-> {}]
  /\ evals = [s \in Ids |-> 0]
  /\ failures = [s \in Ids |-> 0]
  /\ req = 0
  /\ resp = [kind |-> "none"]

\* no execute_code call is followed step by step
ExecIdle ==
  /\ tests = <<>>
  /\ events = <<>>
  /\ idx = 0
  /\ results = <<>>
  /\ ret = [kind |-> "none"]
  /\ escaped = FALSE
  /\ once = [kind |-> "none"]

\* no _compare_output call is followed
CompareIdle ==
  /\ output = <<>>
  /\ expected = [t |-> "null"]
  /\ verdict = "none"

\* the identifiers of the challenges, participants and draft languages followed
QuestionIds == {"q1", "q2"}
Participants == {"u1", "u2"}
DraftLanguages == {"python"}

\* no admin request is followed; the challenge of the queue's submissions exists
AdminIdle ==
  /\ files = [q \in QuestionIds |-> [pdf |-> TRUE, testcases |-> TRUE]]
  /\ drafts = {}
  /\ sub_question = [s \in Ids |-> "q1"]
  /\ audit_events = <<>>
  /\ del_resp = [kind |-> "none"]

\* no single test case is followed through the harness
NoCall == [language |-> "python", source |-> [has_main |-> FALSE, defines |-> "none"],
           test_input |-> [t |-> "null"], user_id |-> "None", user_env |-> FALSE]

HarnessIdle ==
  /\ call = NoCall
  /\ os_environ = <<>>
  /\ stage = "idle"
  /\ program = [kind |-> "none"]
  /\ children = <<>>
  /\ stdin_data = [kind |-> "none"]
  /\ outcome = [kind |-> "none"]

\* threading.Semaphore(max(1, settings.EXECUTION_MAX_PROCESSES))
Semaphore(value) == IF value >= 1 THEN value ELSE 1

\* no thread is in the executor
SemaphoreIdle ==
  /\ max_processes = EXECUTION_MAX_PROCESSES
  /\ permits = Semaphore(max_processes)
  /\ caller = [c \in Callers |-> "idle"]
  /\ step = [c \in Callers |-> "none"]

\* _run_loop is not followed statement by statement
LoopIdle ==
  /\ stop_event = FALSE
  /\ settings = [WORKER_BATCH_SIZE |-> WORKER_BATCH_SIZE,
                 WORKER_POLL_INTERVAL_MS |-> WORKER_POLL_INTERVAL_MS]
  /\ loop = [at |-> "untracked"]

\* the whole pool of workers against one queue
Init ==
  /\ AdminIdle
  /\ HarnessIdle
  /\ SemaphoreIdle
  /\ LoopIdle
  /\ live = Workers
  /\ ntests \in 0..PoolMaxTests
  /\ InitDb
  /\ ExecIdle
  /\ CompareIdle

\* one worker, challenges of every size
InitEval ==
  /\ AdminIdle
  /\ HarnessIdle
  /\ SemaphoreIdle
  /\ LoopIdle
  /\ live = {1}
  /\ ntests \in 0..MaxTests
  /\ InitDb
  /\ ExecIdle
  /\ CompareIdle

adminVars == <<files, drafts, sub_question, audit_events, del_resp>>
harnessVars == <<call, os_environ, stage, program, children, stdin_data, outcome>>
semaphoreVars == <<max_processes, permits, caller, step>>
loopVars == <<stop_event, settings, loop>>
envVars == <<live, ntests, adminVars, harnessVars, semaphoreVars, loopVars>>
workerVars == <<pc, cur, delSeen>>
ghostVars == <<evals, failures>>
apiVars == <<req, resp>>
execVars == <<tests, events, idx, results, ret, escaped, once>>
compareVars == <<output, expected, verdict>>
queueVars == <<envVars, sub, origin, nextId, test_results, workerVars, ghostVars, apiVars>>

\* ---------------------------------------------------------------- enqueue
\* A row enters the queue: Submission(status="queued") added and committed.
Enqueue ==
  /\ nextId \in Ids
  /\ sub' = [sub EXCEPT ![nextId] = NewRow("queued")]
  /\ origin' = [origin EXCEPT ![nextId] = "enqueue"]
  /\ nextId' = nextId + 1
  /\ UNCHANGED <<execVars, compareVars, envVars, test_results, workerVars, ghostVars, apiVars>>

\* ------------------------------------------------- process_next_submission
\* rows a FOR UPDATE of another session holds
LockedByOther(w) == {cur[v] : v \in {x \in Workers \ {w} : pc[x] = "locked"}}

Queued == {s \in Ids : sub[s].status = "queued"}

\* .order_by(submitted_at.desc()).first()
Last(S) == CHOOSE s \in S : \A t \in S : s >= t

\* .order_by(submitted_at.asc()).first(): rows are inserted in id order
First(S) == CHOOSE s \in S : \A t \in S : s <= t

\* base_query.with_for_update(skip_locked=True).first(), and base_query.first()
\* when that raises; no row: return False, _run_loop sleeps and polls again.
Select(w) ==
  /\ w \in live
  /\ pc[w] = "poll"
  /\ \E raises \in BOOLEAN :
       LET cand == IF raises THEN Queued ELSE Queued \ LockedByOther(w) IN
       IF cand = {}
       THEN UNCHANGED <<pc, cur>>
       ELSE /\ pc' = [pc EXCEPT ![w] = IF raises THEN "selected" ELSE "locked"]
            /\ cur' = [cur EXCEPT ![w] = First(cand)]
  /\ UNCHANGED <<execVars, compareVars, envVars, sub, origin, nextId, test_results, delSeen, ghostVars, apiVars>>

\* status = "running"; started_at = utcnow(); commit (the UPDATE waits for a
\* row lock of another session, and the commit releases the session's own).
ClaimCommit(w) ==
  /\ pc[w] \in {"locked", "selected"}
  /\ cur[w] \notin LockedByOther(w)
  /\ sub' = [sub EXCEPT ![cur[w]] = Flush(@, [status |-> "running", started_at |-> "set"])]
  /\ pc' = [pc EXCEPT ![w] = "running"]
  /\ evals' = [evals EXCEPT ![cur[w]] = @ + 1]
  /\ UNCHANGED <<execVars, compareVars, envVars, origin, nextId, test_results, cur, delSeen, failures, apiVars>>

\* _evaluate_submission up to the DELETE of the stored rows: the statement
\* removes the rows committed at that moment, in the session's transaction.
EvalExecute(w) ==
  /\ pc[w] = "running"
  /\ delSeen' = [delSeen EXCEPT ![w] = {x.by : x \in test_results[cur[w]]}]
  /\ pc' = [pc EXCEPT ![w] = "evaluated"]
  /\ UNCHANGED <<execVars, compareVars, envVars, sub, origin, nextId, test_results, cur, ghostVars, apiVars>>

\* the commit of _evaluate_submission: UPDATE of the row, DELETE and INSERTs in
\* one transaction.  The results of execute_code are local to the worker until
\* this commit, so the outcome list r is drawn by EvalCommit.
EvalCommitWith(w, r) ==
  /\ pc[w] = "evaluated"
  /\ LET res == execute_code(r)
         s == cur[w] IN
       /\ sub' = [sub EXCEPT ![s] = Flush(@, [score |-> Score(res.passed, res.total),
                                               error_type |-> res.error_type,
                                               completed_at |-> "set",
                                               status |-> FinalStatus(res.error_type, res.passed)])]
       /\ test_results' = [test_results EXCEPT ![s] =
                             {x \in @ : x.by \notin delSeen[w]} \cup NewRows(w, res)]
  /\ pc' = [pc EXCEPT ![w] = "poll"]
  /\ cur' = [cur EXCEPT ![w] = 0]
  /\ delSeen' = [delSeen EXCEPT ![w] = {}]
  /\ UNCHANGED <<execVars, compareVars, envVars, origin, nextId, ghostVars, apiVars>>

EvalCommit(w) == \E r \in ResultLists(ntests) : EvalCommitWith(w, r)

\* _evaluate_submission raises (the challenge files are gone, the commit
\* fails, ...): rollback, refresh, then the retry decision on retry_count.
\* Reading retry_count raises AttributeError when the class does not map it;
\* the exception leaves process_next_submission and ends _run_loop.
EvalRaise(w) ==
  /\ pc[w] \in {"running", "evaluated"}
  /\ LET s == cur[w]
         row == sub[s] IN
     IF "retry_count" \in MappedColumns
     THEN /\ sub' = [sub EXCEPT ![s] =
                 IF row.retry_count < WORKER_MAX_RETRIES
                 THEN Flush(row, [retry_count |-> row.retry_count + 1, status |-> "queued",
                                  error_type |-> "worker_retry"])
                 ELSE Flush(row, [status |-> "failed", error_type |-> "worker_failure",
                                  completed_at |-> "set"])]
          /\ pc' = [pc EXCEPT ![w] = "poll"]
          /\ cur' = [cur EXCEPT ![w] = 0]
     ELSE /\ pc' = [pc EXCEPT ![w] = "dead"]
          /\ UNCHANGED <<sub, cur>>
  /\ delSeen' = [delSeen EXCEPT ![w] = {}]
  /\ failures' = [failures EXCEPT ![cur[w]] = @ + 1]
  /\ UNCHANGED <<execVars, compareVars, envVars, origin, nextId, test_results, evals, apiVars>>

\* ------------------------------------------------------------ submit_code
\* ParticipantSubmitResponse(**args): submission_id has no default.
ParticipantSubmitResponse(args) ==
  IF "submission_id" \in DOMAIN args
  THEN [kind |-> "response", submission_id |-> args.submission_id, status |-> "queued"]
  ELSE [kind |-> "error"]

\* submit_code up to its first commit: the row is inserted with status "running"
SubmitCreate ==
  /\ req = 0
  /\ nextId \in Ids
  /\ sub' = [sub EXCEPT ![nextId] = NewRow("running")]
  /\ origin' = [origin EXCEPT ![nextId] = "submit_code"]
  /\ req' = nextId
  /\ nextId' = nextId + 1
  /\ resp' = [kind |-> "none"]
  /\ UNCHANGED <<execVars, compareVars, envVars, test_results, workerVars, ghostVars>>

\* the rest of submit_code: evaluation in the request, commit of "completed"
\* and of the result rows, then the response; any exception, the one of the
\* response constructor included, commits "failed" and raises ValidationError.
SubmitFinish ==
  /\ req # 0
  /\ \E raises \in BOOLEAN, r \in ResultLists(ntests) :
       LET res == execute_code(r)
           out == ParticipantSubmitResponse([success |-> TRUE, message |-> "ok", output |-> "o"])
           done == Flush(sub[req], [score |-> Score(res.passed, res.total),
                                    status |-> "completed", completed_at |-> "set"]) IN
       IF raises
       THEN /\ sub' = [sub EXCEPT ![req] = Flush(@, [status |-> "failed", completed_at |-> "set"])]
            /\ resp' = [kind |-> "error"]
            /\ UNCHANGED test_results
       ELSE /\ test_results' = [test_results EXCEPT ![req] =
                                  @ \cup NewRows(ApiWriter, res)]
            /\ sub' = [sub EXCEPT ![req] =
                         IF out.kind = "error"
                         THEN Flush(done, [status |-> "failed", completed_at |-> "set"])
                         ELSE done]
            /\ resp' = out
  /\ req' = 0
  /\ UNCHANGED <<execVars, compareVars, envVars, origin, nextId, workerVars, ghostVars>>

\* ------------------------------------------------------------------- Next
Next ==
  \/ Enqueue
  \/ SubmitCreate
  \/ SubmitFinish
  \/ \E w \in Workers : Select(w)
  \/ \E w \in Workers : ClaimCommit(w)
  \/ \E w \in Workers : EvalExecute(w)
  \/ \E w \in Workers : EvalCommit(w)
  \/ \E w \in Workers : EvalRaise(w)

Spec == Init /\ [][Next]_vars

SpecEval == InitEval /\ [][Next]_vars

\* ============================================================ code executor
\* ---------------------------------------------------------------- bounds
\* test cases in one call of execute_code
MaxCases == 3
\* test cases in a call whose cases carry their own timeouts
MaxTimed == 2

\* ------------------------------------------------------- program constants
\* settings.CODE_EXECUTION_TIMEOUT, in seconds
CODE_EXECUTION_TIMEOUT == 5
\* the floor max(0.1, ...) of a per-test timeout, in milliseconds
MIN_TIMEOUT_MS == 100

\* --------------------------------------------------------- the environment
\* The substrings of the lowered stderr text that _classify_error looks for; a
\* stderr text is the set of those it contains.
StderrWords == {"time limit exceeded", "timed out", "compile", "error", "traceback", "exception"}

\* wall-clock times a child process may need, in milliseconds
Durations == {70, 150, 6000}

\* timeout_ms of a test case: <<>> is an absent (None) value
Timeouts == {<<>>, <<50>>, <<200>>}

\* What the environment does for one test case:
\*   tempdir_error    tempfile.TemporaryDirectory raises (entering or cleaning up)
\*   source_error     _create_source_file raises
\*   compile_failed   the compiler exits nonzero (or no compiler for the language)
\*   compile_timeout  the compiler runs beyond the 30 seconds of subprocess.run
\*   compile_raised   subprocess.run of the compiler raises otherwise
\*   run_raised       subprocess.run of the program raises other than by timeout
\*   ran              the program needs "duration" ms, then exits with exit_code,
\*                    stderr, and a stdout for which _compare_output gives "match"
Ev(kind, duration, exit_code, stderr, match) ==
  [kind |-> kind, duration |-> duration, exit_code |-> exit_code, stderr |-> stderr,
   match |-> match]

Faults == {"tempdir_error", "source_error", "compile_failed", "compile_timeout",
           "compile_raised", "run_raised"}

AllEvents ==
  {Ev(k, 0, 0, {}, FALSE) : k \in Faults}
    \cup {Ev("ran", d, 0, {}, m) : d \in Durations, m \in BOOLEAN}
    \cup {Ev("ran", d, 1, e, FALSE) : d \in Durations, e \in SUBSET StderrWords}

\* the events of the calls with several test cases
CoarseEvents ==
  {Ev("tempdir_error", 0, 0, {}, FALSE), Ev("compile_failed", 0, 0, {}, FALSE),
   Ev("ran", 70, 0, {}, TRUE), Ev("ran", 70, 0, {}, FALSE), Ev("ran", 6000, 0, {}, TRUE)}

TimedEvents == {Ev("ran", d, 0, {}, m) : d \in Durations, m \in BOOLEAN}

TestCase(id, timeout_ms) == [id |-> id, timeout_ms |-> timeout_ms]

Max2(a, b) == IF a >= b THEN a ELSE b

\* _classify_error with the "compile" test left out
classify_error_no_compile(stderr) ==
  IF "time limit exceeded" \in stderr \/ "timed out" \in stderr THEN "time_limit_exceeded"
  ELSE "runtime_error"

_classify_error(stderr) ==
  IF "time limit exceeded" \in stderr \/ "timed out" \in stderr THEN "time_limit_exceeded"
  ELSE IF "compile" \in stderr THEN "compile_error"
  ELSE IF "error" \in stderr \/ "traceback" \in stderr \/ "exception" \in stderr
       THEN "runtime_error"
  ELSE "runtime_error"

\* timeout_seconds of _run_code with the floor left out, in milliseconds
timeout_millis_no_floor(timeout_ms) ==
  IF timeout_ms = <<>> THEN CODE_EXECUTION_TIMEOUT * 1000 ELSE timeout_ms[1]

\* timeout_seconds of _run_code, in milliseconds:
\* self.timeout, or max(0.1, int(timeout_ms) / 1000.0)
timeout_millis(timeout_ms) ==
  IF timeout_ms = <<>> THEN CODE_EXECUTION_TIMEOUT * 1000
  ELSE Max2(MIN_TIMEOUT_MS, timeout_ms[1])

\* _compile_if_needed: (executable, compile_error); every exception of the
\* compiler's subprocess.run, TimeoutExpired included, is caught and returned
\* as the error text
_compile_if_needed(ev) ==
  IF ev.kind = "compile_failed" THEN [executable |-> FALSE, compile_error |-> "compiler output"]
  ELSE IF ev.kind = "compile_timeout" THEN [executable |-> FALSE, compile_error |-> "str(e)"]
  ELSE IF ev.kind = "compile_raised" THEN [executable |-> FALSE, compile_error |-> "str(e)"]
  ELSE [executable |-> TRUE, compile_error |-> "null"]

\* _run_code: subprocess.run raises TimeoutExpired when the child needs more
\* than the limit; the exception passes through the try/finally
_run_code(ev, timeout_ms) ==
  IF ev.kind = "run_raised" THEN [kind |-> "raise"]
  ELSE IF ev.duration > timeout_millis(timeout_ms) THEN [kind |-> "TimeoutExpired"]
  ELSE [kind |-> "exit", exit_code |-> ev.exit_code, stderr |-> ev.stderr]

Result(id, passed, error_type, error) ==
  [test_case_id |-> id, passed |-> passed, error_type |-> error_type, error |-> error]

Return(result) == [kind |-> "return", result |-> result]

\* _execute_single_test: the dict it returns, or the exception that leaves it
\* (the with statement of the temporary directory is outside its try)
_execute_single_test(tc, ev) ==
  IF ev.kind = "tempdir_error" THEN [kind |-> "raise"]
  ELSE IF ev.kind = "source_error"
       THEN Return(Result(tc.id, FALSE, "runtime_error", "str(e)"))
  ELSE IF ~_compile_if_needed(ev).executable
       THEN Return(Result(tc.id, FALSE, "compile_error", _compile_if_needed(ev).compile_error))
  ELSE LET run_result == _run_code(ev, tc.timeout_ms) IN
       IF run_result.kind = "TimeoutExpired"
       THEN Return(Result(tc.id, FALSE, "time_limit_exceeded", "Time Limit Exceeded"))
       ELSE IF run_result.kind = "raise"
       THEN Return(Result(tc.id, FALSE, "runtime_error", "str(e)"))
       ELSE IF run_result.exit_code # 0
       THEN Return(Result(tc.id, FALSE, _classify_error(run_result.stderr),
                          IF run_result.stderr = {} THEN "Runtime error" ELSE "stderr"))
       ELSE IF ev.match
       THEN Return(Result(tc.id, TRUE, "null", "null"))
       ELSE Return(Result(tc.id, FALSE, "wrong_answer", "Expected ..., got ..."))

\* the loop body without its except clause
loop_body_no_except(rs, tc, ev) ==
  LET r == _execute_single_test(tc, ev) IN
  IF r.kind = "raise" THEN [results |-> rs, escaped |-> TRUE]
  ELSE [results |-> Append(rs, r.result), escaped |-> FALSE]

\* the loop body with an except clause that only logs
loop_body_skip(rs, tc, ev) ==
  LET r == _execute_single_test(tc, ev) IN
  IF r.kind = "raise" THEN [results |-> rs, escaped |-> FALSE]
  ELSE [results |-> Append(rs, r.result), escaped |-> FALSE]

\* the body of the loop of execute_code over one test case: the result of
\* _execute_single_test is appended, and so is a runtime_error result when
\* an exception leaves it
loop_body(rs, tc, ev) ==
  LET r == _execute_single_test(tc, ev) IN
  IF r.kind = "raise"
  THEN [results |-> Append(rs, Result(tc.id, FALSE, "runtime_error", "str(e)")),
        escaped |-> FALSE]
  ELSE [results |-> Append(rs, r.result), escaped |-> FALSE]

RECURSIVE passed_count(_)
passed_count(rs) == IF rs = <<>> THEN 0
                    ELSE (IF rs[1].passed THEN 1 ELSE 0) + passed_count(Tail(rs))

NoFailure == [error_type |-> "null", error |-> "null"]

\* the last result that did not pass
RECURSIVE last_failure(_)
last_failure(rs) == IF rs = <<>> THEN NoFailure
                    ELSE IF ~rs[Len(rs)].passed THEN rs[Len(rs)]
                    ELSE last_failure(SubSeq(rs, 1, Len(rs) - 1))

\* next((r for r in results if not r.get("passed")), None)
RECURSIVE primary_failure(_)
primary_failure(rs) == IF rs = <<>> THEN NoFailure
                       ELSE IF ~rs[1].passed THEN rs[1]
                       ELSE primary_failure(Tail(rs))

\* the dict execute_code returns for the results rs of the test cases tcs
Returned(rs, tcs) ==
  [kind |-> "result", passed |-> passed_count(rs), total |-> Len(tcs), test_results |-> rs,
   error_type |-> primary_failure(rs).error_type,
   error_message |-> primary_failure(rs).error]

\* the outcome of each result, as _evaluate_submission reads it
OutcomeList(rs) == [i \in 1..Len(rs) |-> IF rs[i].passed THEN "pass" ELSE rs[i].error_type]

RunOnceResult(stdout, stderr, exit_code, error_type, error_message) ==
  [kind |-> "return", stdout |-> stdout, stderr |-> stderr, exit_code |-> exit_code,
   execution_time_ms |-> "int", error_type |-> error_type, error_message |-> error_message]

\* run_once: the dict it returns, or the exception that leaves it
run_once(ev) ==
  IF ev.kind = "tempdir_error" THEN [kind |-> "raise"]
  ELSE IF ev.kind = "source_error"
       THEN RunOnceResult("", "str(e)", 1, "runtime_error", "str(e)")
  ELSE IF ~_compile_if_needed(ev).executable
       THEN RunOnceResult("", _compile_if_needed(ev).compile_error, 1, "compile_error",
                          _compile_if_needed(ev).compile_error)
  ELSE LET result == _run_code(ev, <<>>) IN
       IF result.kind = "TimeoutExpired"
       THEN RunOnceResult("", "Time Limit Exceeded", 124, "time_limit_exceeded",
                          "Time Limit Exceeded")
       ELSE IF result.kind = "raise"
       THEN RunOnceResult("", "str(e)", 1, "runtime_error", "str(e)")
       ELSE RunOnceResult("stdout", result.stderr, result.exit_code,
                          IF result.exit_code # 0 THEN _classify_error(result.stderr)
                          ELSE "null",
                          IF result.stderr = {} THEN "null" ELSE "stderr")

\* ---------------------------------------------------------------- actions
\* Worker 1 has claimed submission 1 and is in _evaluate_submission.
InitClaimed ==
  /\ live = {1}
  /\ sub = [s \in Ids |-> IF s = 1 THEN Flush(NewRow("queued"), [status |-> "running",
                                                                 started_at |-> "set"])
                          ELSE NoRow]
  /\ origin = [s \in Ids |-> IF s = 1 THEN "enqueue" ELSE "none"]
  /\ nextId = 2
  /\ test_results = [s \in Ids |-> {}]
  /\ pc = [w \in Workers |-> IF w = 1 THEN "running" ELSE "poll"]
  /\ cur = [w \in Workers |-> IF w = 1 THEN 1 ELSE 0]
  /\ delSeen = [w \in Workers |-> {}]
  /\ evals = [s \in Ids |-> IF s = 1 THEN 1 ELSE 0]
  /\ failures = [s \in Ids |-> 0]
  /\ req = 0
  /\ resp = [kind |-> "none"]

\* the calls of execute_code that are followed: any list of up to MaxCases test
\* cases, one test case with anything the environment can do, and up to MaxTimed
\* test cases that carry timeouts
InitExec ==
  /\ AdminIdle
  /\ HarnessIdle
  /\ SemaphoreIdle
  /\ LoopIdle
  /\ InitClaimed
  /\ \E n \in 0..MaxCases :
       \/ /\ tests \in [1..n -> {TestCase(i, <<>>) : i \in 1..2}]
          /\ events \in [1..n -> CoarseEvents]
       \/ /\ n = 1
          /\ tests \in [1..n -> {TestCase(1, t) : t \in Timeouts}]
          /\ events \in [1..n -> AllEvents]
       \/ /\ n \in 1..MaxTimed
          /\ tests \in [1..n -> {TestCase(i, t) : i \in 1..2, t \in Timeouts}]
          /\ events \in [1..n -> TimedEvents]
  /\ ntests = Len(tests)
  /\ idx = 0
  /\ results = <<>>
  /\ ret = [kind |-> "none"]
  /\ escaped = FALSE
  /\ once = [kind |-> "none"]
  /\ CompareIdle

\* one turn of the loop of execute_code
ExecStep ==
  /\ pc[1] = "running"
  /\ ~escaped
  /\ idx < Len(tests)
  /\ LET out == loop_body(results, tests[idx + 1], events[idx + 1]) IN
       /\ results' = out.results
       /\ escaped' = out.escaped
  /\ idx' = idx + 1
  /\ UNCHANGED <<tests, events, ret, once, compareVars, queueVars>>

\* the end of the loop: execute_code returns
ExecReturn ==
  /\ pc[1] = "running"
  /\ ~escaped
  /\ idx = Len(tests)
  /\ ret.kind = "none"
  /\ ret' = Returned(results, tests)
  /\ UNCHANGED <<tests, events, idx, results, escaped, once, compareVars, queueVars>>

\* _evaluate_submission goes on with the returned dict up to its DELETE
ExecDelete ==
  /\ ret.kind = "result"
  /\ EvalExecute(1)

\* and commits what it derived from the returned dict
ExecCommit ==
  /\ ret.kind = "result"
  /\ EvalCommitWith(1, OutcomeList(ret.test_results))

\* an exception leaves _evaluate_submission: from the loading of the test
\* cases before execute_code, from execute_code, or from the statements after
ExecRaise ==
  /\ \/ idx = 0
     \/ escaped
     \/ ret.kind = "result"
  /\ EvalRaise(1)

\* a test run of the first test input through run_once
RunOnce ==
  /\ once.kind = "none"
  /\ Len(events) >= 1
  /\ once' = run_once(events[1])
  /\ UNCHANGED <<tests, events, idx, results, ret, escaped, compareVars, queueVars>>

NextExec ==
  \/ ExecStep
  \/ ExecReturn
  \/ ExecDelete
  \/ ExecCommit
  \/ ExecRaise
  \/ RunOnce

SpecExec == InitExec /\ [][NextExec]_vars

\* ------------------------------------------------------------------ claims
\* the workers that hold a claimed row and are inside _evaluate_submission
Evaluating(s) == {w \in Workers : cur[w] = s /\ pc[w] \in {"running", "evaluated"}}

\* C1: at every moment at most one worker is evaluating a given submission,
\* whichever of the two queries selected the row.
C1_AtMostOneEvaluator == \A s \in Ids : Cardinality(Evaluating(s)) <= 1

\* C2: every claim is followed by a terminal state of the row or by its return
\* to queued with retry_count incremented, so that no row stays running: when a
\* worker leaves the evaluation of a row, the row is in one of these states.
C2_ClaimEndsTerminalOrRequeued ==
  [][\A w \in Workers :
       (pc[w] \in {"running", "evaluated"} /\ pc'[w] \notin {"running", "evaluated"})
         => \/ sub'[cur[w]].status \in Terminal
            \/ /\ sub'[cur[w]].status = "queued"
               /\ sub'[cur[w]].retry_count = sub[cur[w]].retry_count + 1]_vars

\* C3: after a committed evaluation the stored test-result rows of the
\* submission are the rows of that evaluation and nothing else, one per test
\* case; an evaluation that raises leaves the stored rows and the score alone.
C3_ResultsAreLatestEvaluation ==
  [][\A w \in Workers :
       /\ EvalCommit(w) =>
            /\ Cardinality(test_results'[cur[w]]) = ntests
            /\ \A x \in test_results'[cur[w]] : x.by = w
       /\ EvalRaise(w) =>
            /\ test_results'[cur[w]] = test_results[cur[w]]
            /\ sub'[cur[w]].score = sub[cur[w]].score]_vars

\* C4: an evaluation that raises while retry_count is below WORKER_MAX_RETRIES
\* puts the row back to queued with retry_count one higher and error_type
\* worker_retry, and does not touch completed_at.
C4_RaiseBelowBudgetRequeues ==
  [][\A w \in Workers :
       (EvalRaise(w) /\ sub[cur[w]].retry_count < WORKER_MAX_RETRIES)
         => /\ sub'[cur[w]].retry_count = sub[cur[w]].retry_count + 1
            /\ sub'[cur[w]].status = "queued"
            /\ sub'[cur[w]].error_type = "worker_retry"
            /\ sub'[cur[w]].completed_at = sub[cur[w]].completed_at]_vars

\* The retry budget of a row is used up: retry_count has reached the maximum,
\* which is to say that WORKER_MAX_RETRIES evaluations of the row have raised
\* before.
RetryBudgetExhausted(s) ==
  sub[s].retry_count >= WORKER_MAX_RETRIES \/ failures[s] >= WORKER_MAX_RETRIES

C6_RetryCountBounded ==
  [][\A s \in Ids :
       /\ sub'[s].retry_count \in 0..WORKER_MAX_RETRIES
       /\ sub'[s].retry_count >= sub[s].retry_count
       /\ sub'[s].retry_count # sub[s].retry_count
            => sub[s].status = "running" /\ sub'[s].status = "queued"
       /\ evals'[s] <= WORKER_MAX_RETRIES + 1]_vars

\* C7: a row inserted by submit_code is queued until a worker claims it, and
\* the answer of the submit call carries a positive submission_id and the
\* status queued.
C7_SubmitCreatesQueued ==
  /\ \A s \in Ids : (origin[s] = "submit_code" /\ evals[s] = 0) => sub[s].status = "queued"
  /\ resp.kind # "none" =>
       /\ resp.kind = "response"
       /\ resp.submission_id > 0
       /\ resp.status = "queued"

AllowedWorkerTransitions ==
  {<<"queued", "running">>, <<"running", "completed">>, <<"running", "failed">>,
   <<"running", "timeout">>, <<"running", "queued">>}

\* C8: a queue row changes its status only along queued -> running, running ->
\* completed, failed, timeout or queued, and a row in a terminal state is never
\* changed again, nor are its stored test results.
C8_TerminalStatesAbsorbing ==
  [][\A s \in Ids :
       origin[s] = "enqueue" =>
         /\ sub'[s].status # sub[s].status
              => <<sub[s].status, sub'[s].status>> \in AllowedWorkerTransitions
         /\ sub[s].status \in Terminal
              => sub'[s] = sub[s] /\ test_results'[s] = test_results[s]]_vars

\* no test case of the outcome list r passed
ZeroPassed(r) == \A i \in 1..Len(r) : r[i] # "pass"

\* the error type of the first failing test case of r is one of E
FirstFailureIn(r, E) == \E i \in 1..Len(r) : r[i] \in E /\ \A j \in 1..(i - 1) : r[j] = "pass"

\* C9: a finished evaluation stores timeout exactly when the first failure is
\* time_limit_exceeded and nothing passed, failed exactly when the first
\* failure is compile_error or runtime_error and nothing passed, and in both
\* cases completed_at, the score and the primary error type are on the row.
C9_FinalStatusStored ==
  [][\A w \in Workers : \A r \in ResultLists(ntests) :
       EvalCommitWith(w, r) =>
         LET row == sub'[cur[w]] IN
         /\ row.status = "timeout"
              <=> (ZeroPassed(r) /\ FirstFailureIn(r, {"time_limit_exceeded"}))
         /\ row.status = "failed"
              <=> (ZeroPassed(r) /\ FirstFailureIn(r, {"compile_error", "runtime_error"}))
         /\ row.status \in {"timeout", "failed"}
              => /\ row.completed_at = "set"
                 /\ row.score = 0
                 /\ row.error_type = r[1]]_vars

\* C10 as claimed: an evaluation in which no test case passed never ends in
\* completed.
C10_ZeroPassedNeverCompleted ==
  [][\A w \in Workers : \A r \in ResultLists(ntests) :
       (EvalCommitWith(w, r) /\ ZeroPassed(r)) => sub'[cur[w]].status # "completed"]_vars

\* C10 as amended: a finished evaluation ends in completed unless no test case
\* passed and the first failure is a compile error, a runtime error or a
\* timeout; with no test case at all, or a wrong answer first, it is completed.
C10_CompletedUnlessPrimaryError ==
  [][\A w \in Workers : \A r \in ResultLists(ntests) :
       EvalCommitWith(w, r) =>
         (sub'[cur[w]].status = "completed"
            <=> ~(ZeroPassed(r) /\ FirstFailureIn(r, {"compile_error", "runtime_error",
                                                      "time_limit_exceeded"})))]_vars

\* a worker stored completed with score 0 for two test cases that both failed
C10_Witness ==
  \E s \in Ids :
    /\ origin[s] = "enqueue"
    /\ sub[s].status = "completed"
    /\ sub[s].score = 0
    /\ {x.test_case_id : x \in test_results[s]} = {1, 2}
    /\ \A x \in test_results[s] : ~x.passed

\* ========================================================== _compare_output
\* A text is a sequence of symbols: the characters " ' [ ] { } , : . and the
\* blank, digits, letters, and the words null, true, false, None, True and
\* False, each taken as one symbol.  A value is what json.load gave for the
\* expected output of a test case: [t |-> "null"], [t |-> "bool", v |-> b],
\* [t |-> "int", v |-> n], [t |-> "float", v |-> n, f |-> d] for n.d,
\* [t |-> "str", v |-> symbols], [t |-> "list", v |-> values] and
\* [t |-> "dict", v |-> <<key, value>> pairs].  The numbers followed have at
\* most one digit after the point.

\* ---------------------------------------------------------------- bounds
\* symbols in a string value
MaxStrLen == 2
\* elements of an array
MaxListLen == 2

DigitVal == ("0" :> 0) @@ ("1" :> 1) @@ ("3" :> 3) @@ ("5" :> 5)
Digits == DOMAIN DigitVal
DigitOf(n) == CHOOSE c \in Digits : DigitVal[c] = n

NullV == [t |-> "null"]
BoolV(b) == [t |-> "bool", v |-> b]
IntV(n) == [t |-> "int", v |-> n]
FloatV(n, d) == [t |-> "float", v |-> n, f |-> d]
StrV(cs) == [t |-> "str", v |-> cs]
ListV(vs) == [t |-> "list", v |-> vs]
DictV(kvs) == [t |-> "dict", v |-> kvs]

SeqsUpTo(S, n) == UNION {[1..k -> S] : k \in 0..n}

StrChars == {"a", " ", "3"}
StringValues == {StrV(cs) : cs \in SeqsUpTo(StrChars, MaxStrLen)}
NumberValues == {IntV(0), IntV(1), IntV(3), FloatV(1, 0), FloatV(3, 0), FloatV(3, 5)}
ElemValues == {NullV, BoolV(TRUE), IntV(1), StrV(<<"a">>)}
ListValues == {ListV(vs) : vs \in SeqsUpTo(ElemValues, MaxListLen)}
DictValues == {DictV(<<>>)} \cup {DictV(<<<<StrV(<<"a">>), e>>>>) : e \in ElemValues}
NestedValues == {ListV(<<l>>) : l \in {ListV(vs) : vs \in SeqsUpTo(ElemValues, 1)}}
                  \cup {ListV(<<d>>) : d \in DictValues}

ExpectedValues ==
  {NullV, BoolV(TRUE), BoolV(FALSE)} \cup NumberValues \cup StringValues \cup ListValues
    \cup DictValues \cup NestedValues

\* ------------------------------------------------------- Python's functions
RECURSIVE Join(_, _)
Join(parts, sep) == IF parts = <<>> THEN <<>>
                    ELSE IF Len(parts) = 1 THEN parts[1]
                    ELSE parts[1] \o sep \o Join(Tail(parts), sep)

NumberText(x) == IF x.t = "int" THEN <<DigitOf(x.v)>> ELSE <<DigitOf(x.v), ".", DigitOf(x.f)>>

\* repr(v): strings in single quotes
RECURSIVE py_repr(_)
py_repr(x) ==
  IF x.t = "null" THEN <<"None">>
  ELSE IF x.t = "bool" THEN (IF x.v THEN <<"True">> ELSE <<"False">>)
  ELSE IF x.t \in {"int", "float"} THEN NumberText(x)
  ELSE IF x.t = "str" THEN <<"'">> \o x.v \o <<"'">>
  ELSE IF x.t = "list"
       THEN <<"[">> \o Join([i \in 1..Len(x.v) |-> py_repr(x.v[i])], <<",", " ">>) \o <<"]">>
  ELSE <<"{">> \o Join([i \in 1..Len(x.v) |->
                          py_repr(x.v[i][1]) \o <<":", " ">> \o py_repr(x.v[i][2])],
                       <<",", " ">>) \o <<"}">>

\* str(v): a string is its own text, anything else its repr
py_str(x) == IF x.t = "str" THEN x.v ELSE py_repr(x)

\* json.dumps(v) with the separators sep (", " and ": " by default)
RECURSIVE json_dumps_with(_, _, _)
json_dumps_with(x, item_sep, key_sep) ==
  IF x.t = "null" THEN <<"null">>
  ELSE IF x.t = "bool" THEN (IF x.v THEN <<"true">> ELSE <<"false">>)
  ELSE IF x.t \in {"int", "float"} THEN NumberText(x)
  ELSE IF x.t = "str" THEN <<"\"">> \o x.v \o <<"\"">>
  ELSE IF x.t = "list"
       THEN <<"[">> \o Join([i \in 1..Len(x.v) |-> json_dumps_with(x.v[i], item_sep, key_sep)],
                           item_sep) \o <<"]">>
  ELSE <<"{">> \o Join([i \in 1..Len(x.v) |->
                          json_dumps_with(x.v[i][1], item_sep, key_sep) \o key_sep
                            \o json_dumps_with(x.v[i][2], item_sep, key_sep)],
                       item_sep) \o <<"}">>

json_dumps(x) == json_dumps_with(x, <<",", " ">>, <<":", " ">>)

\* JSON.stringify(v): no blanks between the items
json_compact(x) == json_dumps_with(x, <<",">>, <<":">>)

RECURSIVE lstrip(_)
lstrip(text) == IF text # <<>> /\ text[1] = " " THEN lstrip(Tail(text)) ELSE text

RECURSIVE rstrip(_)
rstrip(text) == IF text # <<>> /\ text[Len(text)] = " "
                THEN rstrip(SubSeq(text, 1, Len(text) - 1)) ELSE text

\* str.strip()
strip(text) == rstrip(lstrip(text))

\* ------------------------------------------------------------- json.loads
\* A parse gives [ok, val, rest]: the value read and the text after it.
ParseFail == [ok |-> FALSE, val |-> NullV, rest |-> <<>>]
Parsed(val, rest) == [ok |-> TRUE, val |-> val, rest |-> rest]

\* length of the longest prefix of text made of symbols in S
RECURSIVE PrefixLen(_, _)
PrefixLen(text, S) == IF text # <<>> /\ text[1] \in S THEN 1 + PrefixLen(Tail(text), S) ELSE 0

Drop(text, n) == SubSeq(text, n + 1, Len(text))

RECURSIVE DigitsValue(_)
DigitsValue(ds) == IF ds = <<>> THEN 0
                   ELSE 10 * DigitsValue(SubSeq(ds, 1, Len(ds) - 1)) + DigitVal[ds[Len(ds)]]

\* a number: digits, then at most a point and one digit; strict: no leading
\* zeros in the integer part, as JSON has it
ParseNumberWith(text, strict) ==
  LET n == PrefixLen(text, Digits)
      int == SubSeq(text, 1, n)
      after == Drop(text, n) IN
  IF n = 0 \/ (strict /\ n > 1 /\ int[1] = "0") THEN ParseFail
  ELSE IF Len(after) >= 2 /\ after[1] = "." /\ after[2] \in Digits
       THEN Parsed(FloatV(DigitsValue(int), DigitVal[after[2]]), Drop(after, 2))
  ELSE Parsed(IntV(DigitsValue(int)), after)

\* a JSON number
ParseNumber(text) == ParseNumberWith(text, TRUE)

\* a JSON string: the symbols up to the closing quote
ParseString(text) ==
  LET body == Tail(text)
      n == PrefixLen(body, StrChars \cup Digits \cup {"'", "[", "]", "{", "}", ",", ":", ".",
                                                     "null", "true", "false", "None", "True",
                                                     "False"}) IN
  IF n < Len(body) /\ body[n + 1] = "\"" THEN Parsed(StrV(SubSeq(body, 1, n)), Drop(body, n + 1))
  ELSE ParseFail

RECURSIVE ParseValue(_)
RECURSIVE ParseItems(_, _)
RECURSIVE ParsePairs(_, _)

\* the items of an array after "[" or ",": acc holds the items read
ParseItems(text, acc) ==
  LET item == ParseValue(text) IN
  IF ~item.ok THEN ParseFail
  ELSE LET after == lstrip(item.rest) IN
       IF after # <<>> /\ after[1] = "]" THEN Parsed(ListV(Append(acc, item.val)), Tail(after))
       ELSE IF after # <<>> /\ after[1] = ","
            THEN ParseItems(Tail(after), Append(acc, item.val))
       ELSE ParseFail

\* the members of an object after "{" or ","
ParsePairs(text, acc) ==
  LET t1 == lstrip(text) IN
  IF t1 = <<>> \/ t1[1] # "\"" THEN ParseFail
  ELSE LET key == ParseString(t1) IN
       IF ~key.ok THEN ParseFail
       ELSE LET t2 == lstrip(key.rest) IN
            IF t2 = <<>> \/ t2[1] # ":" THEN ParseFail
            ELSE LET item == ParseValue(Tail(t2)) IN
                 IF ~item.ok THEN ParseFail
                 ELSE LET after == lstrip(item.rest) IN
                      IF after # <<>> /\ after[1] = "}"
                      THEN Parsed(DictV(Append(acc, <<key.val, item.val>>)), Tail(after))
                      ELSE IF after # <<>> /\ after[1] = ","
                           THEN ParsePairs(Tail(after), Append(acc, <<key.val, item.val>>))
                      ELSE ParseFail

ParseValue(text) ==
  LET t1 == lstrip(text) IN
  IF t1 = <<>> THEN ParseFail
  ELSE IF t1[1] = "null" THEN Parsed(NullV, Tail(t1))
  ELSE IF t1[1] = "true" THEN Parsed(BoolV(TRUE), Tail(t1))
  ELSE IF t1[1] = "false" THEN Parsed(BoolV(FALSE), Tail(t1))
  ELSE IF t1[1] \in Digits THEN ParseNumber(t1)
  ELSE IF t1[1] = "\"" THEN ParseString(t1)
  ELSE IF t1[1] = "["
       THEN LET t2 == lstrip(Tail(t1)) IN
            IF t2 # <<>> /\ t2[1] = "]" THEN Parsed(ListV(<<>>), Tail(t2))
            ELSE ParseItems(Tail(t1), <<>>)
  ELSE IF t1[1] = "{"
       THEN LET t2 == lstrip(Tail(t1)) IN
            IF t2 # <<>> /\ t2[1] = "}" THEN Parsed(DictV(<<>>), Tail(t2))
            ELSE ParsePairs(Tail(t1), <<>>)
  ELSE ParseFail

\* json.loads(text): one value and nothing but blanks after it, else
\* JSONDecodeError
json_loads(text) ==
  LET p == ParseValue(text) IN
  IF p.ok /\ lstrip(p.rest) = <<>> THEN [ok |-> TRUE, val |-> p.val]
  ELSE [ok |-> FALSE, val |-> NullV]

\* the value of a number in tenths; True and False count as 1 and 0
Tenths(x) == IF x.t = "bool" THEN (IF x.v THEN 10 ELSE 0)
             ELSE IF x.t = "int" THEN 10 * x.v
             ELSE 10 * x.v + x.f

\* float(text): the text of a number, blanks around it allowed, else ValueError
py_float(text) ==
  LET p == ParseNumberWith(strip(text), FALSE) IN
  IF p.ok /\ p.rest = <<>> THEN [ok |-> TRUE, val |-> Tenths(p.val)]
  ELSE [ok |-> FALSE, val |-> 0]

PyNumber(x) == x.t \in {"bool", "int", "float"}

\* Python's ==: numbers, bool among them, by value; str, list and dict by
\* content; None only with None
RECURSIVE PyEq(_, _)
PyEq(x, y) ==
  IF PyNumber(x) /\ PyNumber(y) THEN Tenths(x) = Tenths(y)
  ELSE IF x.t # y.t THEN FALSE
  ELSE IF x.t = "null" THEN TRUE
  ELSE IF x.t = "str" THEN x.v = y.v
  ELSE IF x.t = "list"
       THEN Len(x.v) = Len(y.v) /\ \A i \in 1..Len(x.v) : PyEq(x.v[i], y.v[i])
  ELSE /\ Len(x.v) = Len(y.v)
       /\ \A i \in 1..Len(x.v) : \E j \in 1..Len(y.v) :
            PyEq(x.v[i][1], y.v[j][1]) /\ PyEq(x.v[i][2], y.v[j][2])

\* _compare_output without the JSON comparison
compare_output_no_json(out, exp) ==
  LET output_stripped == strip(out)
      expected_stripped == strip(py_str(exp)) IN
  IF output_stripped = expected_stripped THEN TRUE
  ELSE py_float(output_stripped).ok /\ py_float(expected_stripped).ok
         /\ py_float(output_stripped).val = py_float(expected_stripped).val

_compare_output(out, exp) ==
  LET output_stripped == strip(out)
      expected_stripped == strip(py_str(exp))
      output_parsed == json_loads(output_stripped)
      expected_parsed == json_loads(expected_stripped) IN
  IF output_stripped = expected_stripped THEN TRUE
  ELSE IF output_parsed.ok /\ PyEq(output_parsed.val, exp) THEN TRUE
  ELSE IF output_parsed.ok /\ expected_parsed.ok /\ PyEq(output_parsed.val, expected_parsed.val)
       THEN TRUE
  ELSE py_float(output_stripped).ok /\ py_float(expected_stripped).ok
         /\ py_float(output_stripped).val = py_float(expected_stripped).val

\* ---------------------------------------------------------------- actions
\* what a program may print for a value: its JSON text with or without blanks,
\* Python's print of it, and each of these with blanks around
Printed(x) == {json_dumps(x), json_compact(x), py_str(x)}
OutputTexts ==
  UNION {Printed(x) : x \in ExpectedValues}
    \cup {<<" ">> \o t \o <<" ">> : t \in UNION {Printed(x) : x \in NumberValues \cup ElemValues}}

InitCompare ==
  /\ AdminIdle
  /\ HarnessIdle
  /\ SemaphoreIdle
  /\ LoopIdle
  /\ live = {}
  /\ ntests = 0
  /\ InitDb
  /\ ExecIdle
  /\ output \in OutputTexts
  /\ expected \in ExpectedValues
  /\ verdict = "none"

Compare ==
  /\ verdict = "none"
  /\ verdict' = IF _compare_output(output, expected) THEN "True" ELSE "False"
  /\ UNCHANGED <<output, expected, execVars, queueVars>>

NextCompare == Compare

SpecCompare == InitCompare /\ [][NextCompare]_vars

\* ------------------------------------------------- claims on the executor
\* the test case passes: the program ran within its limit, exited with 0 and
\* printed what was expected
Passes(tc, ev) ==
  /\ ev.kind = "ran"
  /\ ev.duration <= timeout_millis(tc.timeout_ms)
  /\ ev.exit_code = 0
  /\ ev.match

\* the failure of the test case is one of the user's code or of its execution
UserFailure(i) == i \in 1..Len(results) /\ ~results[i].passed

\* C11: a failure of the user's code in a test case (compile error, nonzero
\* exit, timeout, wrong answer, exception while the test case is executed)
\* never requeues the job and never changes retry_count: no exception leaves
\* execute_code, and the retry/failure path is entered only by an exception
\* raised before the test cases are run or after execute_code has returned.
C11_UserFailureNeverRetries ==
  /\ [](~escaped)
  /\ [][/\ EvalRaise(1) => (~escaped /\ (idx = 0 \/ ret.kind = "result"))
        /\ ~EvalRaise(1) => /\ sub'[1].status = "queued" => sub[1].status = "queued"
                            /\ sub'[1].retry_count = sub[1].retry_count
                            /\ pc'[1] = "dead" => pc[1] = "dead"]_vars

\* a job whose first test case failed by an exception inside its execution was
\* committed as failed, retry_count untouched
C11_Witness ==
  /\ Len(tests) >= 1
  /\ events[1].kind = "tempdir_error"
  /\ UserFailure(1)
  /\ pc[1] = "poll"
  /\ sub[1].status = "failed"
  /\ sub[1].retry_count = 0
  /\ failures[1] = 0

\* the ids of a list of test cases or results are pairwise different
UniqueIds(seq, field) == \A i, j \in 1..Len(seq) : seq[i][field] = seq[j][field] => i = j

\* C12: execute_code gives exactly one result per supplied test case, in the
\* supplied order and with that case's id, whatever happened in the cases
\* before it; total is the number of cases, passed the number of results with
\* passed = true, and the result ids are unique when the case ids are.
C12_OneResultPerTestCase ==
  /\ ~escaped => Len(results) = idx
  /\ \A i \in 1..Len(results) :
       /\ results[i].test_case_id = tests[i].id
       /\ results[i].passed <=> Passes(tests[i], events[i])
  /\ ret.kind = "result" =>
       /\ Len(ret.test_results) = Len(tests)
       /\ \A i \in 1..Len(tests) : ret.test_results[i].test_case_id = tests[i].id
       /\ ret.total = Len(tests)
       /\ ret.passed = Cardinality({i \in 1..Len(ret.test_results) : ret.test_results[i].passed})
       /\ UniqueIds(tests, "id") => UniqueIds(ret.test_results, "test_case_id")

\* execute_code returned for a list whose first case raised inside its
\* execution and whose second case passed
C12_Witness ==
  /\ ret.kind = "result"
  /\ Len(tests) >= 2
  /\ events[1].kind = "tempdir_error"
  /\ ~ret.test_results[1].passed
  /\ ret.test_results[2].passed
  /\ UniqueIds(tests, "id")

\* positions of the results that did not pass
Failing(rs) == {i \in 1..Len(rs) : ~rs[i].passed}

\* C13: the error_type and error_message of the aggregate are those of the
\* first result, in list order, that did not pass, and both are null exactly
\* when every test case passed.
C13_PrimaryErrorIsFirstFailure ==
  ret.kind = "result" =>
    LET F == Failing(ret.test_results) IN
    /\ (ret.error_type = "null") <=> (F = {})
    /\ (ret.error_message = "null") <=> (F = {})
    /\ \A i \in F : (\A j \in F : i <= j) =>
         /\ ret.error_type = ret.test_results[i].error_type
         /\ ret.error_message = ret.test_results[i].error

\* the aggregate of a list with a pass, then two failures of different types
C13_Witness ==
  /\ ret.kind = "result"
  /\ \E i, j, k \in 1..Len(ret.test_results) :
       /\ i < j /\ j < k
       /\ ret.test_results[i].passed
       /\ ~ret.test_results[j].passed
       /\ ~ret.test_results[k].passed
       /\ ret.test_results[j].error_type # ret.test_results[k].error_type
       /\ ret.error_type = ret.test_results[j].error_type

\* 100 * passed / total rounded to the nearest integer
RoundedScore(passed, total) ==
  IF total > 0 THEN (200 * passed + total) \div (2 * total) ELSE 0

\* C14: the score stored on the submission is 100 * passed_count / total_count
\* rounded to the nearest integer when total_count > 0 and 0 otherwise, and it
\* is within 0..100.
C14_ScoreIsRounded ==
  [][ExecCommit =>
       /\ sub'[1].score = RoundedScore(ret.passed, ret.total)
       /\ sub'[1].score \in 0..100]_vars

\* a child process of the test case ran beyond its wall-clock limit
ChildTimedOut(tc, ev) ==
  \/ ev.kind = "compile_timeout"
  \/ ev.kind = "ran" /\ ev.duration > timeout_millis(tc.timeout_ms)

\* C15: a test case one of whose child processes exceeded its wall-clock
\* timeout, in the compile step or in the run step, has passed = false and
\* error_type time_limit_exceeded.
C15_TimeoutIsTimeLimitExceeded ==
  \A i \in 1..Len(results) :
    ChildTimedOut(tests[i], events[i]) =>
      ~results[i].passed /\ results[i].error_type = "time_limit_exceeded"

\* the stderr text mentions a timeout
MentionsTimeout(stderr) == "timed out" \in stderr \/ "time limit exceeded" \in stderr

\* C16: a run step that exits nonzero marks the test failed with error_type
\* time_limit_exceeded when stderr mentions a timeout and runtime_error
\* otherwise, for every stderr text; a Traceback gives runtime_error.
C16_NonzeroExitClassified ==
  \A i \in 1..Len(results) :
    (events[i].kind = "ran" /\ ~ChildTimedOut(tests[i], events[i]) /\ events[i].exit_code # 0)
      => /\ ~results[i].passed
         /\ results[i].error_type \in {"time_limit_exceeded", "runtime_error"}
         /\ results[i].error_type = "time_limit_exceeded" <=> MentionsTimeout(events[i].stderr)
         /\ ("traceback" \in events[i].stderr /\ ~MentionsTimeout(events[i].stderr))
              => results[i].error_type = "runtime_error"

\* the limit the claim gives a test case: its timeout_ms, else the global one
ClaimedLimit(tc) ==
  IF tc.timeout_ms = <<>> THEN CODE_EXECUTION_TIMEOUT * 1000 ELSE tc.timeout_ms[1]

\* the limit with the floor of 100 ms
FlooredLimit(tc) ==
  IF tc.timeout_ms = <<>> THEN CODE_EXECUTION_TIMEOUT * 1000
  ELSE IF tc.timeout_ms[1] < 100 THEN 100 ELSE tc.timeout_ms[1]

RunOnceFields == {"stdout", "stderr", "exit_code", "execution_time_ms", "error_type",
                  "error_message"}

\* C20: run_once never raises; what it returns has the six fields, error_type
\* is null exactly when exit_code is 0 and else one of compile_error,
\* runtime_error, time_limit_exceeded, and there is no verdict in it.
C20_RunOnceNeverRaises ==
  once.kind # "none" =>
    /\ once.kind = "return"
    /\ RunOnceFields \subseteq DOMAIN once
    /\ "passed" \notin DOMAIN once
    /\ (once.error_type = "null") <=> (once.exit_code = 0)
    /\ once.error_type \in {"null", "compile_error", "runtime_error", "time_limit_exceeded"}

\* ---------------------------------------------- claims on _compare_output
\* deep equality of two JSON values: numbers by value, and a boolean only
\* with the same boolean
RECURSIVE DeepEqual(_, _)
DeepEqual(x, y) ==
  IF x.t \in {"int", "float"} /\ y.t \in {"int", "float"} THEN Tenths(x) = Tenths(y)
  ELSE IF x.t # y.t THEN FALSE
  ELSE IF x.t = "null" THEN TRUE
  ELSE IF x.t \in {"bool", "str"} THEN x.v = y.v
  ELSE IF x.t = "list"
       THEN Len(x.v) = Len(y.v) /\ \A i \in 1..Len(x.v) : DeepEqual(x.v[i], y.v[i])
  ELSE /\ Len(x.v) = Len(y.v)
       /\ \A i \in 1..Len(x.v) : \E j \in 1..Len(y.v) :
            DeepEqual(x.v[i][1], y.v[j][1]) /\ DeepEqual(x.v[i][2], y.v[j][2])

\* (a) the trimmed output is the trimmed text of expected
TierExact(out, exp) == strip(out) = strip(py_str(exp))

\* (b) the output parses as JSON and deep-equals expected
TierJson(out, exp) == json_loads(strip(out)).ok /\ DeepEqual(json_loads(strip(out)).val, exp)

\* (c) output and expected both parse as numbers and are numerically equal
TierNumeric(out, exp) ==
  /\ py_float(out).ok
  /\ py_float(py_str(exp)).ok
  /\ py_float(out).val = py_float(py_str(exp)).val

\* C17: _compare_output returns true exactly when the trimmed texts are equal,
\* or the output parses as JSON and deep-equals expected, or both parse as
\* numbers and are numerically equal.
C17_TrueExactlyWhenATierMatches ==
  verdict # "none" =>
    (verdict = "True"
       <=> (TierExact(output, expected) \/ TierJson(output, expected)
              \/ TierNumeric(output, expected)))

\* C18: a program that prints the JSON serialization of the expected value,
\* with or without blanks after the separators, passes, for every JSON value.
C18_JsonOfExpectedPasses ==
  (verdict # "none" /\ output \in {json_dumps(expected), json_compact(expected)})
    => verdict = "True"

\* the JSON text of a string with a blank in front was compared with it
C18_Witness ==
  /\ verdict = "True"
  /\ output = json_dumps(expected)
  /\ expected.t = "str"
  /\ Len(expected.v) = 2
  /\ expected.v[1] = " "


\* ------------------------------------------------- DELETE /challenges/{id}
\* ChallengeLoader.validate_question_exists
validate_question_exists(q) == files[q].pdf /\ files[q].testcases

\* ChallengeLoader.delete_question: both files are unlinked
delete_question(q) == [files EXCEPT ![q] = [pdf |-> FALSE, testcases |-> FALSE]]

\* AuditService.log_event: one row of audit_events
AuditEvent(action, target_id, metadata) ==
  [action |-> action, target_type |-> "challenge", target_id |-> target_id,
   metadata |-> metadata]

\* the rows of code_drafts a question id has
DraftsOf(q) == {d \in drafts : d.question_id = q}

\* the rows of submissions a question id has
SubmissionsOf(q) == {s \in Ids : sub[s].status # "none" /\ sub_question[s] = q}

\* a submissions row in each status the queue gives it
RowIn(st) ==
  IF st = "queued" THEN NewRow("queued")
  ELSE IF st = "running" THEN Flush(NewRow("queued"), [status |-> "running", started_at |-> "set"])
  ELSE Flush(NewRow("queued"), [status |-> "completed", score |-> 100, completed_at |-> "set"])

\* a database with drafts and with submissions in every status, and a challenge
\* store with whole, partial and missing challenges
InitAdmin ==
  /\ live = {}
  /\ ntests = 1
  /\ \E n \in 0..MaxSubmissions :
       /\ nextId = n + 1
       /\ \E st \in [1..n -> {"queued", "running", "completed"}] :
            /\ sub = [s \in Ids |-> IF s <= n THEN RowIn(st[s]) ELSE NoRow]
            /\ test_results = [s \in Ids |->
                 IF s <= n /\ st[s] = "completed"
                 THEN NewRows(s, execute_code(<<"pass">>)) ELSE {}]
            /\ evals = [s \in Ids |-> IF s <= n /\ st[s] # "queued" THEN 1 ELSE 0]
       /\ origin = [s \in Ids |-> IF s <= n THEN "enqueue" ELSE "none"]
       /\ \E qs \in [1..n -> QuestionIds] :
            sub_question = [s \in Ids |-> IF s <= n THEN qs[s] ELSE "q1"]
  /\ pc = [w \in Workers |-> "poll"]
  /\ cur = [w \in Workers |-> 0]
  /\ delSeen = [w \in Workers |-> {}]
  /\ failures = [s \in Ids |-> 0]
  /\ req = 0
  /\ resp = [kind |-> "none"]
  /\ ExecIdle
  /\ CompareIdle
  /\ files \in [QuestionIds -> [pdf : BOOLEAN, testcases : BOOLEAN]]
  /\ drafts \in SUBSET [user_id : Participants, question_id : QuestionIds,
                        language : DraftLanguages]
  /\ audit_events = <<>>
  /\ del_resp = [kind |-> "none"]
  /\ HarnessIdle
  /\ SemaphoreIdle
  /\ LoopIdle

\* delete_challenge: the whole handler
delete_challenge(question_id) ==
  /\ IF ~validate_question_exists(question_id)
     THEN /\ del_resp' = [kind |-> "ValidationError", question_id |-> question_id]
          /\ UNCHANGED <<files, audit_events>>
     ELSE /\ files' = delete_question(question_id)
          /\ audit_events' = Append(audit_events,
                                    AuditEvent("delete_challenge", question_id, <<>>))
          /\ del_resp' = [kind |-> "ok", question_id |-> question_id,
                          body |-> [success |-> TRUE,
                                    message |-> <<"Challenge", question_id, "deleted">>]]
  /\ UNCHANGED <<drafts, sub_question, live, ntests, sub, origin, nextId, test_results,
                 workerVars, ghostVars, apiVars, execVars, compareVars, harnessVars,
                 semaphoreVars, loopVars>>

NextAdmin == \E q \in QuestionIds : delete_challenge(q)

SpecAdmin == InitAdmin /\ [][NextAdmin]_vars

\* ------------------------------------------------------ claims on the admin API
\* C21 (as claimed): a successful delete of a challenge removes every draft of
\* that question id and of no other, reports their number as deleted_drafts in
\* the response and in the audit event, and leaves every submission and test
\* result as it was.
C21_DeleteRemovesDrafts ==
  [][\A q \in QuestionIds :
       (delete_challenge(q) /\ del_resp'.kind = "ok") =>
         /\ drafts' = drafts \ DraftsOf(q)
         /\ "deleted_drafts" \in DOMAIN del_resp'.body
         /\ del_resp'.body.deleted_drafts = Cardinality(DraftsOf(q))
         /\ sub' = sub /\ sub_question' = sub_question /\ test_results' = test_results]_vars


\* --------------------------------------------------------- test harnesses
Languages == {"python", "java", "c", "cpp", "javascript", "csharp"}
Interpreted == {"python", "javascript"}

\* What a submitted source defines.  has_main: its entry point (main in C, C++
\* and Java, Main in C#; statements at the top level of a Python or JavaScript
\* file).  defines: the name under which it defines the target function with
\* matching parameters, for a requested name in snake_case ("none": under no
\* name the harnesses try).
FunctionNames == {"none", "requested", "camel", "pascal"}
Sources == [has_main : BOOLEAN, defines : FunctionNames]

\* What a generated file does: error_directive, it ends with an #error line;
\* runs_main, the entry point of the source runs; calls_target, the harness
\* calls the target function and prints its result; throws_missing, the
\* harness raises its "no matching method" exception.
Program(error_directive, runs_main, calls_target, throws_missing) ==
  [kind |-> "file", error_directive |-> error_directive, runs_main |-> runs_main,
   calls_target |-> calls_target, throws_missing |-> throws_missing]

\* the top level of the file runs first; the function is called if it is defined
_create_python_harness(code) ==
  Program(FALSE, code.has_main, code.defines = "requested", FALSE)

_create_java_harness(code) ==
  IF code.has_main THEN Program(FALSE, TRUE, FALSE, FALSE)
  ELSE IF code.defines \in {"requested", "camel"} THEN Program(FALSE, FALSE, TRUE, FALSE)
  ELSE Program(FALSE, FALSE, FALSE, TRUE)

\* _create_c_cpp_harness with the entry point looked at before the function
create_c_cpp_harness_main_first(code, language) ==
  IF code.has_main THEN Program(FALSE, TRUE, FALSE, FALSE)
  ELSE IF language = "cpp" /\ code.defines \in {"requested", "camel"}
       THEN Program(FALSE, FALSE, TRUE, FALSE)
  ELSE Program(TRUE, FALSE, FALSE, FALSE)

_create_c_cpp_harness(code, language) ==
  IF language = "c"
  THEN IF ~code.has_main THEN Program(TRUE, FALSE, FALSE, FALSE)
       ELSE Program(FALSE, TRUE, FALSE, FALSE)
  ELSE LET function_defined == code.defines \in {"requested", "camel"} IN
       IF ~function_defined
       THEN IF code.has_main THEN Program(FALSE, TRUE, FALSE, FALSE)
            ELSE Program(TRUE, FALSE, FALSE, FALSE)
       ELSE Program(FALSE, FALSE, TRUE, FALSE)

_create_javascript_harness(code) ==
  Program(FALSE, code.has_main, code.defines = "requested", FALSE)

\* __Runner.Main: __TryInvokeSolution, then __TryInvokeMain, then the exception
_create_csharp_harness(code) ==
  IF code.defines \in {"requested", "camel", "pascal"} THEN Program(FALSE, FALSE, TRUE, FALSE)
  ELSE IF code.has_main THEN Program(FALSE, TRUE, FALSE, FALSE)
  ELSE Program(FALSE, FALSE, FALSE, TRUE)

_create_source_file(code, language) ==
  IF language = "python" THEN _create_python_harness(code)
  ELSE IF language = "java" THEN _create_java_harness(code)
  ELSE IF language \in {"c", "cpp"} THEN _create_c_cpp_harness(code, language)
  ELSE IF language = "javascript" THEN _create_javascript_harness(code)
  ELSE _create_csharp_harness(code)

\* ------------------------------------------------------------ _format_stdin
DecimalDigits == <<"0", "1", "2", "3", "4", "5", "6", "7", "8", "9">>

\* str(n) of an int n >= 0
RECURSIVE DecimalText(_)
DecimalText(n) ==
  IF n < Len(DecimalDigits) THEN <<DecimalDigits[n + 1]>>
  ELSE DecimalText(n \div Len(DecimalDigits)) \o <<DecimalDigits[(n % Len(DecimalDigits)) + 1]>>

\* str(x) as _format_stdin applies it
str(x) == IF x.t = "int" THEN DecimalText(x.v) ELSE py_str(x)

_format_stdin(test_input) ==
  IF test_input.t = "null" THEN <<>>
  ELSE LET lines ==
             IF test_input.t = "list"
             THEN [i \in 1..Len(test_input.v) |->
                     LET item == test_input.v[i] IN
                       IF item.t = "list"
                       THEN Join([j \in 1..Len(item.v) |-> str(item.v[j])], <<" ">>)
                       ELSE str(item)]
             ELSE <<str(test_input)>>
       IN Join(lines, <<"\n">>) \o <<"\n">>

\* the examples of the docstring of _format_stdin: input and documented text
DocstringExamples ==
  { <<ListV(<<IntV(10)>>), <<"1", "0", "\n">> >>,
    <<ListV(<<StrV(<<"abc">>), StrV(<<"def">>)>>), <<"abc", "\n", "def", "\n">> >>,
    <<ListV(<<ListV(<<IntV(1), IntV(2), IntV(3)>>), ListV(<<IntV(4), IntV(5), IntV(6)>>)>>),
      <<"1", " ", "2", " ", "3", "\n", "4", " ", "5", " ", "6", "\n">> >>,
    <<ListV(<<ListV(<<StrV(<<"cbaebabacd">>), StrV(<<"abc">>)>>)>>),
      <<"cbaebabacd", "\n", "abc", "\n">> >> }

\* the elements of the list inputs followed: scalars and lists
StdinItems == {IntV(1), StrV(<<"a">>), BoolV(TRUE), ListV(<<>>), ListV(<<IntV(1), IntV(3)>>),
               ListV(<<StrV(<<"a">>), ListV(<<IntV(1)>>)>>)}

\* the test inputs followed
StdinInputs ==
  {NullV, IntV(3), FloatV(3, 5), StrV(<<"a">>), BoolV(FALSE), DictV(<<>>)}
    \cup {ListV(vs) : vs \in SeqsUpTo(StdinItems, MaxListLen)}
    \cup {ex[1] : ex \in DocstringExamples}

\* ----------------------------------------------------- child environments
allowed_keys == {"PATH", "HOME", "LANG", "LC_ALL", "TMPDIR", "SystemRoot", "WINDIR"}

\* the variables of the server's environment that are followed, and what a
\* variable holds: the empty string or something else
EnvNames == {"PATH", "LANG", "SECRET_KEY", "PYTHONPATH"}
EnvValues == {"", "value"}
Environments == UNION {[names -> EnvValues] : names \in SUBSET EnvNames}

\* _sanitize_env that hands the whole environment on
sanitize_env_copy(environ) == environ

_sanitize_env(environ) ==
  LET kept == {key \in allowed_keys \cap DOMAIN environ : environ[key] # ""} IN
    [key \in kept |-> environ[key]]

\* the environment _run_code gives the child
run_env(environ, language, user_id, user_env) ==
  LET env == _sanitize_env(environ) IN
    IF language = "python" /\ user_id # "None" /\ user_env
    THEN [key \in DOMAIN env \cup {"PYTHONPATH"} |->
            IF key = "PYTHONPATH" THEN "user_env:" ELSE env[key]]
    ELSE env

\* ------------------------------------------------ one _execute_single_test
\* a call with every language, source, user and server environment, and a call
\* with every test input
InitHarness ==
  /\ AdminIdle
  /\ live = {}
  /\ ntests = 1
  /\ InitDb
  /\ ExecIdle
  /\ CompareIdle
  /\ \/ /\ call \in [language : Languages, source : Sources, test_input : {NullV},
                     user_id : {"None", "u1"}, user_env : BOOLEAN]
        /\ os_environ \in Environments
     \/ /\ call \in [language : {"python", "c"}, source : {[has_main |-> TRUE, defines |-> "none"]},
                     test_input : StdinInputs, user_id : {"None"}, user_env : {FALSE}]
        /\ os_environ = [key \in {"PATH"} |-> "value"]
  /\ SemaphoreIdle
  /\ LoopIdle
  /\ stage = "called"
  /\ program = [kind |-> "none"]
  /\ children = <<>>
  /\ stdin_data = [kind |-> "none"]
  /\ outcome = [kind |-> "none"]

harnessFrame == <<live, ntests, adminVars, semaphoreVars, loopVars, sub, origin, nextId, test_results, workerVars,
                  ghostVars, apiVars, execVars, compareVars>>

CreateSourceFile ==
  /\ stage = "called"
  /\ program' = _create_source_file(call.source, call.language)
  /\ stage' = "written"
  /\ UNCHANGED <<call, os_environ, children, stdin_data, outcome, harnessFrame>>

\* _compile_if_needed: no child for an interpreted language
CompileIfNeeded ==
  /\ stage = "written"
  /\ IF call.language \in Interpreted
     THEN /\ stage' = "compiled"
          /\ UNCHANGED <<children, outcome>>
     ELSE /\ children' = Append(children, [step |-> "compile", env |-> _sanitize_env(os_environ)])
          /\ IF program.error_directive
             THEN /\ stage' = "returned"
                  /\ outcome' = [kind |-> "compile_error"]
             ELSE /\ stage' = "compiled"
                  /\ UNCHANGED outcome
  /\ UNCHANGED <<call, os_environ, program, stdin_data, harnessFrame>>

\* _format_stdin and _run_code: the child runs what the file says
RunCode ==
  /\ stage = "compiled"
  /\ stdin_data' = [kind |-> "text", text |-> _format_stdin(call.test_input)]
  /\ children' = Append(children,
                        [step |-> "run",
                         env |-> run_env(os_environ, call.language, call.user_id, call.user_env)])
  /\ outcome' = [kind |-> "ran",
                 exit_code |-> IF program.throws_missing THEN 1 ELSE 0,
                 stderr |-> IF program.throws_missing THEN <<"ERROR: ", "no matching method">>
                            ELSE <<>>,
                 ran_main |-> program.runs_main,
                 called_target |-> program.calls_target]
  /\ stage' = "returned"
  /\ UNCHANGED <<call, os_environ, program, harnessFrame>>

NextHarness == CreateSourceFile \/ CompileIfNeeded \/ RunCode

SpecHarness == InitHarness /\ [][NextHarness]_vars


\* ------------------------------------------------- claims on the harnesses
\* the source defines the target function under a name the harness of the
\* language tries
Resolvable(language, code) ==
  IF language \in {"python", "javascript"} THEN code.defines = "requested"
  ELSE IF language \in {"java", "cpp"} THEN code.defines \in {"requested", "camel"}
  ELSE IF language = "csharp" THEN code.defines \in {"requested", "camel", "pascal"}
  ELSE FALSE

\* C22 (as claimed): in each of the six languages a source that defines neither
\* an entry point nor the target function under any name ends its test case
\* with a compile error, or with a nonzero exit code and a diagnostic on stderr.
C22_NeitherDefinedFails ==
  (outcome.kind # "none" /\ ~call.source.has_main /\ call.source.defines = "none")
    => \/ outcome.kind = "compile_error"
       \/ outcome.exit_code # 0 /\ outcome.stderr # <<>>

Compiled == {"c", "cpp", "java", "csharp"}

\* C28 (as claimed): a C, C++, Java or C# source that defines an entry point
\* runs input-style, its entry point runs and the target function is never
\* called by the harness, also when the source defines the function as well.
C28_MainRunsInputStyle ==
  (stage = "returned" /\ call.language \in Compiled /\ call.source.has_main)
    => /\ outcome.kind = "ran"
       /\ outcome.ran_main
       /\ ~outcome.called_target

\* C28 (amended): a C or Java source that defines an entry point runs
\* input-style and the harness never calls the target function; a C++ or C#
\* source that defines an entry point runs input-style only if it does not
\* define the target function under a name the harness tries: if it does, the
\* harness calls the function and the entry point of the source does not run.
C28_MainRunsUnlessFunctionPreferred ==
  (stage = "returned" /\ call.language \in Compiled /\ call.source.has_main)
    => /\ outcome.kind = "ran"
       /\ IF call.language \in {"cpp", "csharp"} /\ Resolvable(call.language, call.source)
          THEN outcome.called_target /\ ~outcome.ran_main
          ELSE outcome.ran_main /\ ~outcome.called_target

\* a C++ source with both main and the target function has been run
C28_Witness ==
  /\ stage = "returned"
  /\ call.language = "cpp"
  /\ call.source.has_main
  /\ call.source.defines = "requested"
  /\ outcome.kind = "ran"
  /\ outcome.called_target

\* C29 (as claimed): the environment of every child process, compile or run,
\* has only variable names of the allow-list of _sanitize_env.
C29_ChildEnvWithinAllowList ==
  \A i \in 1..Len(children) : DOMAIN children[i].env \subseteq allowed_keys

\* the run step of a Python program of a user whose package directory exists
HasUserEnv == call.language = "python" /\ call.user_id # "None" /\ call.user_env

\* C29 (amended): the environment of every child process has only names of the
\* allow-list, each with the server's own value, except that the run step of a
\* Python program gets PYTHONPATH in addition when a user id is given and that
\* user's package directory exists; its value names that directory and takes
\* nothing from the server's PYTHONPATH.
C29_ChildEnvAllowListPlusPythonPath ==
  \A i \in 1..Len(children) :
    LET env == children[i].env IN
      /\ \A key \in DOMAIN env \cap allowed_keys :
           key \in DOMAIN os_environ /\ env[key] = os_environ[key]
      /\ DOMAIN env \ allowed_keys =
           IF children[i].step = "run" /\ HasUserEnv THEN {"PYTHONPATH"} ELSE {}
      /\ "PYTHONPATH" \in DOMAIN env => env["PYTHONPATH"] = "user_env:"

\* a Python program ran with PYTHONPATH set while the server's environment
\* holds a variable outside the allow-list, and a compiled program was compiled
C29_Witness ==
  /\ stage = "returned"
  /\ HasUserEnv
  /\ "SECRET_KEY" \in DOMAIN os_environ
  /\ os_environ["SECRET_KEY"] # ""
  /\ Len(children) = 1
  /\ "PYTHONPATH" \in DOMAIN children[1].env

\* the rule of the claim: one newline-terminated line per top-level element
RECURSIVE FlattenLines(_)
FlattenLines(items) ==
  IF items = <<>> THEN <<>>
  ELSE (IF items[1].t = "list"
        THEN Join([j \in 1..Len(items[1].v) |-> str(items[1].v[j])], <<" ">>)
        ELSE str(items[1])) \o <<"\n">> \o FlattenLines(Tail(items))

FlattenRule(test_input) ==
  IF test_input.t = "null" THEN <<>>
  ELSE IF test_input.t = "list" THEN FlattenLines(test_input.v)
  ELSE str(test_input) \o <<"\n">>

\* C30 (as claimed): _format_stdin gives one newline-terminated line per
\* top-level element of a list input, a list element as its items joined by
\* single spaces, one line for a non-list input and the empty string for null;
\* and each example of its docstring is an instance: the documented text is
\* what the function gives.
C30_StdinFollowsRuleAndDocstring ==
  stdin_data.kind = "text" =>
    /\ stdin_data.text = FlattenRule(call.test_input)
    /\ \A ex \in DocstringExamples : call.test_input = ex[1] => stdin_data.text = ex[2]


\* ------------------------------------------------- _execution_semaphore
\* A calling thread is "idle" (outside the executor), "blocked" (in
\* acquire()), "holding" (acquire() returned, subprocess.run not yet started
\* its child), "child" (its child process is in flight), or past
\* subprocess.run and before release(): "returned" (exit code 0), "failed"
\* (another exit code) or "raised" (TimeoutExpired after the child was killed,
\* or an exception before the child started).
InitSemaphore ==
  /\ AdminIdle
  /\ HarnessIdle
  /\ live = {}
  /\ ntests = 1
  /\ InitDb
  /\ ExecIdle
  /\ CompareIdle
  /\ max_processes \in 0..MaxProcesses
  /\ permits = Semaphore(max_processes)
  /\ caller = [c \in Callers |-> "idle"]
  /\ step = [c \in Callers |-> "none"]
  /\ LoopIdle

semaphoreFrame == <<live, ntests, adminVars, harnessVars, loopVars, sub, origin, nextId, test_results,
                    workerVars, ghostVars, apiVars, execVars, compareVars>>

\* _execute_single_test / run_once reaches _compile_if_needed for a compiled
\* language and _run_code for an interpreted one
EnterExecutor(c) ==
  /\ caller[c] = "idle"
  /\ \E first \in {"compile", "run"} : step' = [step EXCEPT ![c] = first]
  /\ caller' = [caller EXCEPT ![c] = "blocked"]
  /\ UNCHANGED <<max_processes, permits, semaphoreFrame>>

\* acquire() that returns whether or not a permit is free
AcquireNoWait(c) ==
  /\ caller[c] = "blocked"
  /\ permits' = IF permits > 0 THEN permits - 1 ELSE permits
  /\ caller' = [caller EXCEPT ![c] = "holding"]
  /\ UNCHANGED <<max_processes, step, semaphoreFrame>>

\* _execution_semaphore.acquire(): blocks while no permit is free
Acquire(c) ==
  /\ caller[c] = "blocked"
  /\ permits > 0
  /\ permits' = permits - 1
  /\ caller' = [caller EXCEPT ![c] = "holding"]
  /\ UNCHANGED <<max_processes, step, semaphoreFrame>>

\* subprocess.run starts the child, or raises before it has one
StartChild(c) ==
  /\ caller[c] = "holding"
  /\ \E started \in BOOLEAN :
       caller' = [caller EXCEPT ![c] = IF started THEN "child" ELSE "raised"]
  /\ UNCHANGED <<max_processes, permits, step, semaphoreFrame>>

\* the child exits, or the timeout expires and subprocess.run kills it
ChildEnds(c) ==
  /\ caller[c] = "child"
  /\ \E how \in {"returned", "failed", "raised"} : caller' = [caller EXCEPT ![c] = how]
  /\ UNCHANGED <<max_processes, permits, step, semaphoreFrame>>

\* release() reached only when subprocess.run returned
ReleaseUnlessRaised(c) ==
  /\ caller[c] \in {"returned", "failed", "raised"}
  /\ permits' = IF caller[c] = "raised" THEN permits ELSE permits + 1
  /\ IF step[c] = "compile" /\ caller[c] = "returned"
     THEN /\ caller' = [caller EXCEPT ![c] = "blocked"]
          /\ step' = [step EXCEPT ![c] = "run"]
     ELSE /\ caller' = [caller EXCEPT ![c] = "idle"]
          /\ step' = [step EXCEPT ![c] = "none"]
  /\ UNCHANGED <<max_processes, semaphoreFrame>>

\* the finally clause: _execution_semaphore.release(); after a compile step
\* that gave an executable the thread goes on to _run_code
Release(c) ==
  /\ caller[c] \in {"returned", "failed", "raised"}
  /\ permits' = permits + 1
  /\ IF step[c] = "compile" /\ caller[c] = "returned"
     THEN /\ caller' = [caller EXCEPT ![c] = "blocked"]
          /\ step' = [step EXCEPT ![c] = "run"]
     ELSE /\ caller' = [caller EXCEPT ![c] = "idle"]
          /\ step' = [step EXCEPT ![c] = "none"]
  /\ UNCHANGED <<max_processes, semaphoreFrame>>

NextSemaphore ==
  \E c \in Callers :
    \/ EnterExecutor(c)
    \/ Acquire(c)
    \/ StartChild(c)
    \/ ChildEnds(c)
    \/ Release(c)

SpecSemaphore == InitSemaphore /\ [][NextSemaphore]_vars

\* A thread inside the executor keeps running, a child process ends (by
\* itself or killed at its timeout), and a thread in acquire() gets a permit
\* if permits are free again and again.
FairSemaphore ==
  \A c \in Callers :
    /\ WF_vars(StartChild(c))
    /\ WF_vars(ChildEnds(c))
    /\ WF_vars(Release(c))
    /\ SF_vars(Acquire(c))

SpecSemaphoreFair == InitSemaphore /\ [][NextSemaphore]_vars /\ FairSemaphore

\* ---------------------------------------------- claims on the semaphore
InFlight == {c \in Callers : caller[c] = "child"}
Holders == {c \in Callers : caller[c] \in {"holding", "child", "returned", "failed", "raised"}}

\* C23: at no time are more than max(1, EXECUTION_MAX_PROCESSES) child
\* processes in flight, compile and run steps together, however many threads
\* call the executor; a thread beyond the limit stays in acquire() until it
\* gets a permit and is never turned away.
C23_InFlightWithinLimit ==
  /\ [](Cardinality(InFlight) <= Max2(1, max_processes))
  /\ [][\A c \in Callers : caller[c] = "blocked" => caller'[c] \in {"blocked", "holding"}]_vars

\* more threads are in the executor than there are permits: the permits are
\* all taken, each by a child in flight, and a thread waits
C23_Witness ==
  /\ Cardinality(InFlight) = Max2(1, max_processes)
  /\ \E c \in Callers : caller[c] = "blocked"
  /\ permits = 0

InitPair ==
  /\ AdminIdle
  /\ HarnessIdle
  /\ SemaphoreIdle
  /\ LoopIdle
  /\ live = {1, 2}
  /\ ntests = 0
  /\ InitDb
  /\ ExecIdle
  /\ CompareIdle

SpecPair == InitPair /\ [][Next]_vars

\* ---------------------------------------------------------------- _run_loop
\* Worker 1 statement by statement.  loop.at: "while" (the test of the while
\* statement), "for" (in the for statement, in or between calls of
\* process_next_submission), "after_for" (the heartbeat and the test of
\* processed), "sleeping" (in time.sleep), "exited" (the while test saw the
\* stop event).  processed is the local variable; polls counts the calls of
\* this pass; counted the claims whose call has returned; since_sleep the jobs
\* claimed since the last time.sleep; slept the length of the last sleep in ms.
BatchSizes == 0..MaxBatch
PollIntervals == {0, 50, WORKER_POLL_INTERVAL_MS}

\* range(max(1, settings.WORKER_BATCH_SIZE))
BatchRange == Max2(1, settings.WORKER_BATCH_SIZE)

\* max(0.1, settings.WORKER_POLL_INTERVAL_SECONDS), in ms
SleepMs == Max2(MIN_POLL_INTERVAL_MS, settings.WORKER_POLL_INTERVAL_MS)

RECURSIVE ClaimsUpTo(_)
ClaimsUpTo(n) == IF n = 0 THEN 0 ELSE evals[n] + ClaimsUpTo(n - 1)

\* how many times a claim was committed
Claims == ClaimsUpTo(MaxSubmissions)

InitLoop ==
  /\ AdminIdle
  /\ HarnessIdle
  /\ SemaphoreIdle
  /\ live = {1}
  /\ ntests = 0
  /\ InitDb
  /\ ExecIdle
  /\ CompareIdle
  /\ stop_event = FALSE
  /\ settings \in [WORKER_BATCH_SIZE : BatchSizes, WORKER_POLL_INTERVAL_MS : PollIntervals]
  /\ loop = [at |-> "while", processed |-> 0, polls |-> 0, counted |-> 0,
             since_sleep |-> 0, slept |-> 0]

loopFrame == <<live, ntests, adminVars, harnessVars, semaphoreVars, sub, origin, nextId,
               test_results, cur, delSeen, ghostVars, apiVars, execVars, compareVars>>

\* SubmissionWorker.stop(): the event is set
Stop ==
  /\ ~stop_event
  /\ stop_event' = TRUE
  /\ UNCHANGED <<settings, loop, pc, loopFrame>>

\* while not self._stop_event.is_set(): processed = 0
WhileTest ==
  /\ loop.at = "while"
  /\ pc[1] = "poll"
  /\ loop' = IF stop_event THEN [loop EXCEPT !.at = "exited"]
             ELSE [loop EXCEPT !.at = "for", !.processed = 0, !.polls = 0]
  /\ UNCHANGED <<stop_event, settings, pc, loopFrame>>

\* a call of process_next_submission can start
CallReady ==
  /\ loop.at = "for"
  /\ pc[1] = "poll"
  /\ loop.polls < BatchRange
  /\ Claims = loop.counted

\* the call finds a queued row
PollClaims ==
  /\ CallReady
  /\ Select(1)
  /\ cur'[1] # 0

\* the call finds no queued row and returns False: break
PollEmpty ==
  /\ CallReady
  /\ Queued = {}
  /\ loop' = [loop EXCEPT !.at = "after_for", !.polls = @ + 1]
  /\ UNCHANGED <<stop_event, settings, pc, loopFrame>>

\* SessionLocal() or both queries raise (the database cannot be reached): the
\* exception leaves process_next_submission and, uncaught, _run_loop
PollRaises ==
  /\ CallReady
  /\ pc' = [pc EXCEPT ![1] = "dead"]
  /\ UNCHANGED <<stop_event, settings, loop, loopFrame>>

\* the call that claimed a row returns True: processed += 1, and the for
\* statement ends after max(1, WORKER_BATCH_SIZE) calls
ReturnTrue ==
  /\ loop.at = "for"
  /\ pc[1] = "poll"
  /\ Claims > loop.counted
  /\ loop' = [loop EXCEPT !.counted = @ + 1, !.processed = @ + 1, !.polls = @ + 1,
                          !.since_sleep = @ + 1,
                          !.at = IF loop.polls + 1 = BatchRange THEN "after_for" ELSE "for"]
  /\ UNCHANGED <<stop_event, settings, pc, loopFrame>>

\* the statements after the for statement, with the sleep not under a test
AfterForAlwaysSleeps ==
  /\ loop.at = "after_for"
  /\ loop' = [loop EXCEPT !.at = "sleeping", !.slept = SleepMs, !.since_sleep = 0]
  /\ UNCHANGED <<stop_event, settings, pc, loopFrame>>

\* self._heartbeat = time.time(); if processed == 0: time.sleep(...)
AfterFor ==
  /\ loop.at = "after_for"
  /\ loop' = IF loop.processed = 0
             THEN [loop EXCEPT !.at = "sleeping", !.slept = SleepMs, !.since_sleep = 0]
             ELSE [loop EXCEPT !.at = "while"]
  /\ UNCHANGED <<stop_event, settings, pc, loopFrame>>

\* time.sleep returns
Wake ==
  /\ loop.at = "sleeping"
  /\ loop' = [loop EXCEPT !.at = "while"]
  /\ UNCHANGED <<stop_event, settings, pc, loopFrame>>

NextLoop ==
  \/ Enqueue
  \/ Stop
  \/ WhileTest
  \/ PollClaims
  \/ PollEmpty
  \/ PollRaises
  \/ ClaimCommit(1)
  \/ EvalExecute(1)
  \/ EvalCommit(1)
  \/ EvalRaise(1)
  \/ ReturnTrue
  \/ AfterFor
  \/ Wake

SpecLoop == InitLoop /\ [][NextLoop]_vars


\* ------------------------------------------------ claims on the worker loop
\* the step in which the query of worker w gives it a row
Selects(w) == pc[w] = "poll" /\ pc'[w] \in {"locked", "selected"}

\* C24 (as claimed): the job a worker claims has the smallest enqueue time of
\* all jobs that are queued at that moment, also with several workers claiming
\* at the same time.
C24_ClaimsOldestQueued ==
  [][\A w \in Workers :
       Selects(w) => cur'[w] \in Queued /\ \A s \in Queued : cur'[w] <= s]_vars

\* C24 (amended): the job a worker's claim query selects has the smallest
\* enqueue time of the queued jobs the query can return: with the locking
\* query, the queued jobs on which no other worker holds the row lock of a
\* claim in progress; with the fallback query, all queued jobs.
C24_ClaimsOldestVisible ==
  [][\A w \in Workers :
       Selects(w) =>
         LET visible == IF pc'[w] = "locked" THEN Queued \ LockedByOther(w) ELSE Queued IN
           cur'[w] \in visible /\ \A s \in visible : cur'[w] <= s]_vars

\* a worker has selected a younger job while an older one is still queued,
\* locked by the claim of another worker
C24_Witness ==
  \E v, w \in Workers :
    /\ v # w
    /\ pc[v] = "locked" /\ pc[w] = "locked"
    /\ cur[v] < cur[w]
    /\ sub[cur[v]].status = "queued" /\ sub[cur[w]].status = "queued"

\* C25 (as claimed): between two sleeps the loop claims at most
\* max(1, WORKER_BATCH_SIZE) jobs.
C25_AtMostBatchBetweenSleeps ==
  loop.at # "untracked" => loop.since_sleep <= BatchRange

\* C25 (amended): one pass of the loop (one run of its for statement) claims at
\* most max(1, WORKER_BATCH_SIZE) jobs and ends at the first poll that finds no
\* queued job; the loop sleeps only after a pass that claimed no job, and then
\* for the poll interval but at least 0.1 s; after a pass that claimed a job it
\* starts the next pass without sleeping.
C25_BatchPerPassSleepWhenIdle ==
  /\ [](loop.at # "untracked" => loop.processed <= BatchRange /\ loop.polls <= BatchRange)
  /\ [][PollEmpty => loop'.at = "after_for"]_vars
  /\ [][(loop.at # "sleeping" /\ loop'.at = "sleeping") =>
          /\ loop.processed = 0
          /\ loop'.slept = SleepMs
          /\ loop'.slept >= MIN_POLL_INTERVAL_MS
          /\ loop'.slept >= settings.WORKER_POLL_INTERVAL_MS]_vars
  /\ [][(loop.at = "after_for" /\ loop.processed > 0 /\ loop'.at # "after_for") =>
          loop'.at = "while"]_vars

\* the loop has claimed more jobs than the batch size since its last sleep
C25_Witness ==
  /\ loop.at = "after_for"
  /\ loop.processed > 0
  /\ loop.since_sleep > BatchRange

\* C27 (as claimed): the loop of the worker ends only when stop() was called;
\* no exception leaves process_next_submission.
C27_LoopEndsOnlyOnStop ==
  (loop.at # "untracked" /\ (pc[1] = "dead" \/ loop.at = "exited")) => stop_event

====
